---------------------------- MODULE Spec2Model ----------------------------
(***************************************************************************)
(* JobSeeker: the merge/dedup/interleave loop of run_fetch.main and the    *)
(* fetch calls of the two source connectors (RemotiveSource,               *)
(* ArbeitnowSource), as state machines.                                    *)
(*                                                                         *)
(* Text is a sequence of one-character strings, so that strip(), lower(),  *)
(* slicing and the substring test are computed, not assumed.               *)
(***************************************************************************)
EXTENDS Integers, Sequences, FiniteSets, TLC

VARIABLES
    \* ---- run_fetch.main, lines 45-73 ----
    remotive_jobs,   \* list returned by RemotiveSource.fetch
    arbeitnow_jobs,  \* list returned by ArbeitnowSource.fetch
    max_len,         \* args.limit
    seen,            \* set of ids already emitted
    jobs,            \* the merged output list
    i,               \* shared index of the interleave loop (0-based, as in the code)
    k,               \* position of the fill loop's iterator in remotive_jobs[i:] + arbeitnow_jobs[i:] (1-based)
    pc               \* main's position

VARIABLES
    \* ---- one call of a connector's fetch (remotive.py 44-107, arbeitnow.py 76-150) ----
    conn,      \* the connector whose fetch is called: "remotive" or "arbeitnow"
    query,     \* argument query: None or a text
    limit,     \* argument limit
    client,    \* the call's httpx.Client: "none", "open" or "closed"
    params,    \* params of the latest request
    status,    \* HTTP status of the latest response (0: no response yet)
    npage,     \* number of items of the latest payload's job list
    jx,        \* number of items of that list the for loop has taken
    out,       \* accumulated records
    page,      \* arbeitnow: page counter
    retries,   \* arbeitnow: retries of the current page
    reqs,      \* requests issued for the current page
    sleeps,    \* backoff sleeps (seconds) since the current page's first request
    asked,     \* page number of the latest request (0: none yet)
    accepted,  \* records appended from the current page
    filter_electronics,  \* argument filter_electronics
    fpc,       \* fetch's position
    err,       \* the exception fetch raised, or "none"
    ret        \* what fetch has handed to its caller

mvars == <<remotive_jobs, arbeitnow_jobs, max_len, seen, jobs, i, k, pc>>

fvars == <<conn, query, limit, filter_electronics, client, params, status, npage, jx, out, page,
           retries, reqs, sleeps, asked, accepted, fpc, err, ret>>

vars == <<mvars, fvars>>

-----------------------------------------------------------------------------
(* Bounds of the model *)

\* longest input list of the merge
MaxLen == 3
\* largest --limit of the merge (the smallest is -1)
MaxLimit == 4
\* largest limit of a fetch call (the smallest is -1)
MaxFetchLimit == 2
\* most items in one payload
MaxItems == 2
\* page numbers from MaxPage upward are identified with MaxPage: the page
\* counter of the code is unbounded, this keeps it finite without cutting a
\* run short
MaxPage == 3

-----------------------------------------------------------------------------
(* Helpers *)

Max(a, b) == IF a >= b THEN a ELSE b
Min(a, b) == IF a <= b THEN a ELSE b

\* All sequences over S of length at most n
SeqUpTo(S, n) == UNION {[1..m -> S] : m \in 0..n}

\* Python's xs[n:] for n >= 0
SliceFrom(xs, n) == IF n >= Len(xs) THEN <<>> ELSE SubSeq(xs, n + 1, Len(xs))

\* the set of elements of a sequence
Range(xs) == {xs[n] : n \in 1..Len(xs)}

-----------------------------------------------------------------------------
(* utils.stable_id: sha256 of the "|"-joined parts.  The hash is taken to be *)
(* collision free, so the digest is represented by the joined parts         *)
(* themselves: equal ids iff equal (source, url).                           *)
stable_id(source, url) == <<source, url>>

\* URLs of the records handed to the merge
MergeUrls == {"u1", "u2", "u3"}

\* A JobOpportunity as the merge sees it: it reads only .id; source and
\* job_url are kept to tell where a record came from.
MergeJob(source, url) == [id |-> stable_id(source, url), source |-> source, job_url |-> url]

\* What a connector's fetch(limit=lim) can hand to main: a list of its own
\* records, no longer than max(lim, 0) (remotive.py line 67, arbeitnow.py
\* lines 83 and 145); the same URL may occur twice within a source.
FetchedLists(source, lim) ==
    SeqUpTo({MergeJob(source, u) : u \in MergeUrls}, Min(MaxLen, Max(lim, 0)))

-----------------------------------------------------------------------------
(* Python text operations, on sequences of one-character strings *)

\* Python's None
None == <<"None">>

\* what a fetch call has handed to its caller: nothing, or the list xs
NoList == [returned |-> FALSE, list |-> <<>>]
Returned(xs) == [returned |-> TRUE, list |-> xs]

\* x or ""
OrEmpty(x) == IF x = None THEN <<>> ELSE x

\* str.strip() (the texts of the model hold no whitespace but the space
\* and the newline)
IsSpace(c) == c \in {" ", "\n"}

RECURSIVE LStrip(_)
LStrip(s) == IF s # <<>> /\ IsSpace(Head(s)) THEN LStrip(Tail(s)) ELSE s

RECURSIVE RStrip(_)
RStrip(s) == IF s # <<>> /\ IsSpace(s[Len(s)]) THEN RStrip(SubSeq(s, 1, Len(s) - 1)) ELSE s

Strip(s) == RStrip(LStrip(s))

\* str.lower(): R is the one upper-case letter of the titles, descriptions
\* and queries of the model
LowerChar(c) == IF c = "R" THEN "r" ELSE c

Lower(s) == [n \in 1..Len(s) |-> LowerChar(s[n])]

\* needle in hay
Contains(hay, needle) ==
    \E p \in 0..(Len(hay) - Len(needle)) : SubSeq(hay, p + 1, p + Len(needle)) = needle

\* s[:n]
Take(s, n) == SubSeq(s, 1, Min(n, Len(s)))

\* s.startswith(prefix)
StartsWith(s, prefix) == Len(s) >= Len(prefix) /\ SubSeq(s, 1, Len(prefix)) = prefix

-----------------------------------------------------------------------------
(* Calendar dates *)

Digits == <<"0", "1", "2", "3", "4", "5", "6", "7", "8", "9">>

IsDigit(c) == \E d \in 1..10 : Digits[d] = c

DigitVal(c) == (CHOOSE d \in 1..10 : Digits[d] = c) - 1

\* the number written by the digits s[a..b]
RECURSIVE NumAt(_, _, _)
NumAt(s, a, b) == IF a > b THEN 0 ELSE NumAt(s, a, b - 1) * 10 + DigitVal(s[b])

AllDigits(s, a, b) == \A n \in a..b : IsDigit(s[n])

IsLeap(y) == (y % 4 = 0 /\ y % 100 # 0) \/ y % 400 = 0

DaysInMonth(y, m) ==
    IF m = 2 THEN (IF IsLeap(y) THEN 29 ELSE 28)
    ELSE IF m \in {4, 6, 9, 11} THEN 30 ELSE 31

\* the first ten characters of s are YYYY-MM-DD and name a day of the calendar
DatePartOk(s) ==
    /\ Len(s) >= 10
    /\ AllDigits(s, 1, 4) /\ s[5] = "-" /\ AllDigits(s, 6, 7) /\ s[8] = "-" /\ AllDigits(s, 9, 10)
    /\ NumAt(s, 1, 4) >= 1
    /\ NumAt(s, 6, 7) \in 1..12
    /\ NumAt(s, 9, 10) \in 1..DaysInMonth(NumAt(s, 1, 4), NumAt(s, 6, 7))

\* HH, HH:MM or HH:MM:SS
ClockOk(c) ==
    /\ Len(c) \in {2, 5, 8}
    /\ AllDigits(c, 1, 2) /\ NumAt(c, 1, 2) <= 23
    /\ Len(c) >= 5 => (c[3] = ":" /\ AllDigits(c, 4, 5) /\ NumAt(c, 4, 5) <= 59)
    /\ Len(c) >= 8 => (c[6] = ":" /\ AllDigits(c, 7, 8) /\ NumAt(c, 7, 8) <= 59)

\* +HH:MM or -HH:MM
OffsetOk(o) ==
    /\ Len(o) = 6
    /\ o[1] \in {"+", "-"}
    /\ AllDigits(o, 2, 3) /\ NumAt(o, 2, 3) <= 23
    /\ o[4] = ":"
    /\ AllDigits(o, 5, 6) /\ NumAt(o, 5, 6) <= 59

\* a time with an optional UTC offset
TimeOk(t) ==
    \E n \in {2, 5, 8} :
        /\ n <= Len(t)
        /\ ClockOk(SubSeq(t, 1, n))
        /\ (Len(t) = n \/ OffsetOk(SubSeq(t, n + 1, Len(t))))

\* datetime.fromisoformat(s) does not raise ValueError: s is
\* YYYY-MM-DD[*HH[:MM[:SS]][+HH:MM]] (fractions of a second left out)
FromIsoformatOk(s) ==
    /\ DatePartOk(s)
    /\ (Len(s) = 10 \/ (Len(s) >= 13 /\ TimeOk(SubSeq(s, 12, Len(s)))))

\* n written with w digits, zero padded
RECURSIVE Pad(_, _)
Pad(n, w) == IF w = 0 THEN <<>> ELSE Pad(n \div 10, w - 1) \o <<Digits[(n % 10) + 1]>>

\* date.isoformat()
IsoFormat(d) == Pad(d.y, 4) \o <<"-">> \o Pad(d.m, 2) \o <<"-">> \o Pad(d.d, 2)

\* datetime.fromisoformat(s).date(), for an s that parses
IsoDate(s) == [y |-> NumAt(s, 1, 4), m |-> NumAt(s, 6, 7), d |-> NumAt(s, 9, 10)]

\* the calendar day that lies `days` days after 1970-01-01 (proleptic Gregorian)
CivilFromDays(days) ==
    LET z   == days + 719468
        era == z \div 146097
        doe == z - era * 146097
        yoe == (doe - doe \div 1460 + doe \div 36524 - doe \div 146096) \div 365
        doy == doe - (365 * yoe + yoe \div 4 - yoe \div 100)
        mp  == (5 * doy + 2) \div 153
        dd  == doy - (153 * mp + 2) \div 5 + 1
        mm  == IF mp < 10 THEN mp + 3 ELSE mp - 9
        yy  == yoe + era * 400 + (IF mm <= 2 THEN 1 ELSE 0)
    IN  [y |-> yy, m |-> mm, d |-> dd]

\* str.replace("Z", "+00:00")
RECURSIVE ReplaceZ(_)
ReplaceZ(s) ==
    IF s = <<>> THEN <<>>
    ELSE (IF Head(s) = "Z" THEN <<"+", "0", "0", ":", "0", "0">> ELSE <<Head(s)>>) \o ReplaceZ(Tail(s))

-----------------------------------------------------------------------------
(* run_fetch.main, lines 45-73: interleave, dedup, cap *)

\* line 50: the while condition
WhileCond == Len(jobs) < max_len /\ (i < Len(remotive_jobs) \/ i < Len(arbeitnow_jobs))

\* line 51 with the last element left out
HasRemotiveOffByOne == i < Len(remotive_jobs) - 1

\* line 51
HasRemotive == i < Len(remotive_jobs)

\* line 58 with the last element left out
HasArbeitnowOffByOne == i < Len(arbeitnow_jobs) - 1

\* line 58
HasArbeitnow == i < Len(arbeitnow_jobs)

\* lines 53, 60 without the membership test
NotSeenAlways(id) == TRUE

\* lines 53, 60: j.id not in seen
NotSeen(id) == id \notin seen

\* line 56 with > for >=
BreakCondStrict == Len(jobs) > max_len

\* line 56: the break between the two sources' turns
BreakCond == Len(jobs) >= max_len

\* line 66
FillCond == Len(jobs) < max_len

\* line 67: remotive_jobs[i:] + arbeitnow_jobs[i:]
Rest == SliceFrom(remotive_jobs, i) \o SliceFrom(arbeitnow_jobs, i)

\* the state of the fetch call, which main's merge does not touch
FetchIdle ==
    /\ conn = "none" /\ query = <<"None">> /\ limit = 0 /\ client = "none"
    /\ filter_electronics = FALSE
    /\ params = [search |-> <<"None">>, page |-> 0] /\ status = 0 /\ npage = 0 /\ jx = 0
    /\ out = <<>> /\ page = 0 /\ retries = 0 /\ reqs = 0 /\ sleeps = <<>>
    /\ asked = 0 /\ accepted = 0 /\ fpc = "idle" /\ err = "none" /\ ret = NoList

\* lines 42-49: both fetches have returned; seen, jobs, i are initialised
InitMerge ==
    /\ max_len \in -1..MaxLimit
    /\ remotive_jobs \in FetchedLists("remotive", max_len)
    /\ arbeitnow_jobs \in FetchedLists("arbeitnow", max_len)
    /\ seen = {}
    /\ jobs = <<>>
    /\ i = 0
    /\ k = 0
    /\ pc = "while"
    /\ FetchIdle

\* line 50
While ==
    /\ pc = "while"
    /\ pc' = IF WhileCond THEN "remotive" ELSE "fill_if"
    /\ UNCHANGED <<remotive_jobs, arbeitnow_jobs, max_len, seen, jobs, i, k>>
    /\ UNCHANGED fvars

\* lines 51-55
TakeRemotive ==
    /\ pc = "remotive"
    /\ IF HasRemotive /\ NotSeen(remotive_jobs[i + 1].id)
         THEN /\ seen' = seen \cup {remotive_jobs[i + 1].id}
              /\ jobs' = Append(jobs, remotive_jobs[i + 1])
         ELSE UNCHANGED <<seen, jobs>>
    /\ pc' = "break"
    /\ UNCHANGED <<remotive_jobs, arbeitnow_jobs, max_len, i, k>>
    /\ UNCHANGED fvars

\* lines 56-57
Break ==
    /\ pc = "break"
    /\ pc' = IF BreakCond THEN "fill_if" ELSE "arbeitnow"
    /\ UNCHANGED <<remotive_jobs, arbeitnow_jobs, max_len, seen, jobs, i, k>>
    /\ UNCHANGED fvars

\* lines 58-62
TakeArbeitnow ==
    /\ pc = "arbeitnow"
    /\ IF HasArbeitnow /\ NotSeen(arbeitnow_jobs[i + 1].id)
         THEN /\ seen' = seen \cup {arbeitnow_jobs[i + 1].id}
              /\ jobs' = Append(jobs, arbeitnow_jobs[i + 1])
         ELSE UNCHANGED <<seen, jobs>>
    /\ pc' = "inc"
    /\ UNCHANGED <<remotive_jobs, arbeitnow_jobs, max_len, i, k>>
    /\ UNCHANGED fvars

\* line 63
Inc ==
    /\ pc = "inc"
    /\ i' = i + 1
    /\ pc' = "while"
    /\ UNCHANGED <<remotive_jobs, arbeitnow_jobs, max_len, seen, jobs, k>>
    /\ UNCHANGED fvars

\* line 66, and line 67's construction of the iterator
FillIf ==
    /\ pc = "fill_if"
    /\ IF FillCond THEN pc' = "fill" /\ k' = 1
                   ELSE pc' = "done" /\ k' = k
    /\ UNCHANGED <<remotive_jobs, arbeitnow_jobs, max_len, seen, jobs, i>>
    /\ UNCHANGED fvars

\* lines 67-73: one turn of the for loop (its end, a continue, or an append
\* followed by the break test)
Fill ==
    /\ pc = "fill"
    /\ IF k > Len(Rest)
         THEN pc' = "done" /\ UNCHANGED <<seen, jobs, k>>
         ELSE IF ~NotSeen(Rest[k].id)
                THEN pc' = "fill" /\ k' = k + 1 /\ UNCHANGED <<seen, jobs>>
                ELSE /\ jobs' = Append(jobs, Rest[k])
                     /\ seen' = seen \cup {Rest[k].id}
                     /\ k' = k + 1
                     /\ pc' = IF Len(jobs') >= max_len THEN "done" ELSE "fill"
    /\ UNCHANGED <<remotive_jobs, arbeitnow_jobs, max_len, i>>
    /\ UNCHANGED fvars

NextMerge == While \/ TakeRemotive \/ Break \/ TakeArbeitnow \/ Inc \/ FillIf \/ Fill

SpecMerge == InitMerge /\ [][NextMerge]_vars

-----------------------------------------------------------------------------
(* What the upstream services may send *)

\* HTTP statuses of a response: success, rate limited, another failure
Statuses == {200, 429, 500}

Http == <<"h", "t", "t", "p", ":", "/", "/">>
Url1 == Http \o <<"x", "/", "1">>
Url2 == Http \o <<"x", "/", "2">>
\* a URL with no scheme and no host
RelativeUrl == <<"x", "/", "1">>

\* the date field of a raw item (created_at, publication_date): absent, a
\* string, a number or a value of another type (a non-empty list or dict).
\* A number n stands for the timestamp 1000 * n, so that epoch milliseconds
\* fit 32-bit integers.
NoDate == [kind |-> "none", s |-> <<>>, n |-> 0]
StrDate(s) == [kind |-> "str", s |-> s, n |-> 0]
NumDate(n) == [kind |-> "num", s |-> <<>>, n |-> n]
OtherDate == [kind |-> "other", s |-> <<>>, n |-> 0]

DateStrings == {
    <<"2", "0", "2", "3", "-", "1", "1", "-", "1", "4", "T", "1", "2", ":", "3", "4", ":", "5", "6", "Z">>,
    <<"c", "o", "m", "i", "n", "g", " ", "s", "o", "o", "n">>,
    <<"2", "0", "2", "4", "-", "0", "1">>,
    <<" ">> }

\* 2023-11-14 in seconds, 2023-11-14 in milliseconds, a number of seconds
\* past the year 9999
DateNumbers == {1700000, 1700000000, 900000000}

DateValues == {NoDate, OtherDate} \cup {StrDate(s) : s \in DateStrings} \cup {NumDate(n) : n \in DateNumbers}

BaseItem == [title |-> <<"R", "f">>, company_name |-> <<"c">>, url |-> Url1,
             description |-> <<>>, date |-> NoDate]

\* the raw items: the base item with a required field missing or blank, with
\* a URL that does not parse, with another title (and URL, and description),
\* and with each of the date values
RawItems ==
    {BaseItem}
    \cup {[BaseItem EXCEPT !.title = t] : t \in {<<>>, <<" ">>}}
    \cup {[BaseItem EXCEPT !.company_name = <<>>]}
    \cup {[BaseItem EXCEPT !.url = u] : u \in {<<>>, RelativeUrl}}
    \cup {[BaseItem EXCEPT !.title = <<"h", "r">>, !.url = <<" ">> \o Url2]}
    \cup {[BaseItem EXCEPT !.title = <<"h", "r">>, !.description = <<"R", "f", " ">>]}
    \cup {[BaseItem EXCEPT !.date = d] : d \in DateValues}

\* the queries a caller may pass
Queries == {None, <<" ">>, <<" ", "R", "f">>}

-----------------------------------------------------------------------------
(* normalize.py *)

\* INCLUDE_KEYWORDS and EXCLUDE_KEYWORDS, the keywords that can occur in a
\* text over the letters of the model (r, f, h)
INCLUDE_KEYWORDS == {<<"r", "f">>}
EXCLUDE_KEYWORDS == {<<"h", "r">>}

is_electronics_role(title, description) ==
    LET blob == Lower(title \o <<"\n">> \o description)
    IN  /\ ~\E kw \in EXCLUDE_KEYWORDS : Contains(blob, kw)
        /\ \E kw \in INCLUDE_KEYWORDS : Contains(blob, kw)

-----------------------------------------------------------------------------
(* models.JobOpportunity *)

\* pydantic's HttpUrl accepts the value: an http(s) scheme and a host
IsHttpUrl(url) ==
    /\ StartsWith(url, Http)
    /\ Len(url) > Len(Http)
    /\ url[Len(Http) + 1] \notin {"/", " "}

\* JobOpportunity(...) validates: of the fields the connectors pass, job_url
\* is the one a raw item can make invalid
JobOpportunityValid(job_url) == IsHttpUrl(job_url)

\* the record; the fields no property reads (location, remote, seniority,
\* function_keywords, requirements, salary, raw) are left out
JobOpportunity(source, company, title, url, date_posted, desc) ==
    [id |-> stable_id(source, url), source |-> source, company_name |-> company,
     job_title |-> title, job_url |-> url, date_posted |-> date_posted,
     description |-> desc]

-----------------------------------------------------------------------------
(* ArbeitnowSource *)

\* __init__ defaults, which main uses
max_retries == 3
backoff_s == 2

\* lines 33-58
_parse_date_posted(created_at) ==
    IF created_at.kind = "none" THEN None
    ELSE IF created_at.kind = "str" THEN
        LET t == Strip(created_at.s)
        IN  IF t = <<>> THEN None
            ELSE IF FromIsoformatOk(ReplaceZ(t)) THEN IsoFormat(IsoDate(ReplaceZ(t)))
            ELSE IF Len(t) >= 10 THEN Take(t, 10) ELSE None
    ELSE IF created_at.kind = "num" THEN
        \* ts > 1e12: milliseconds, ts /= 1000; days since the epoch otherwise
        \* from 1000 * n seconds
        LET n == created_at.n
            days == IF n > 1000000000 THEN n \div 86400
                    ELSE (n \div 432) * 5 + ((n % 432) * 5) \div 432
        IN  \* fromtimestamp raises outside the years 1..9999
            IF days < -719162 \/ days > 2932896 THEN None
            ELSE IsoFormat(CivilFromDays(days))
    ELSE None

\* line 80
q == Lower(Strip(OrEmpty(query)))

\* line 110
HasRequired(title, company, url) == title # <<>> /\ company # <<>> /\ url # <<>>

\* line 113 with the test inverted
QueryMatchesInverted(title, desc) ==
    q = <<>> \/ ~Contains(Lower(title) \o <<" ">> \o Lower(desc), q)

\* line 113, negated: the item passes the query filter
QueryMatches(title, desc) ==
    q = <<>> \/ Contains(Lower(title) \o <<" ">> \o Lower(desc), q)

\* lines 116 (arbeitnow) and 76 (remotive), negated
RoleMatches(title, desc) == ~filter_electronics \/ is_electronics_role(title, desc)

\* line 92 with <= for <
MayRetryOffByOne == status = 429 /\ retries <= max_retries

\* line 92 retrying every failure
MayRetryAnyStatus == retries < max_retries

\* line 92
MayRetry == status = 429 /\ retries < max_retries

\* line 93
RECURSIVE Pow2(_)
Pow2(n) == IF n = 0 THEN 1 ELSE 2 * Pow2(n - 1)
sleep_s == backoff_s * Pow2(retries)

\* line 148 adding 2
NextPageSkip(p) == IF p + 1 < MaxPage THEN p + 2 ELSE MaxPage

\* line 148, with the page numbers from MaxPage upward identified
NextPage(p) == IF p < MaxPage THEN p + 1 ELSE p

\* lines 83 and 145
LimitReached(xs) == Len(xs) >= Max(limit, 0)

\* main has not reached the merge
MergeIdle ==
    /\ remotive_jobs = <<>> /\ arbeitnow_jobs = <<>> /\ max_len = 0 /\ seen = {}
    /\ jobs = <<>> /\ i = 0 /\ k = 0 /\ pc = "idle"

\* a call connector.fetch(query, limit, filter_electronics) begins
InitFetch ==
    /\ conn \in {"remotive", "arbeitnow"}
    /\ query \in Queries
    /\ limit \in -1..MaxFetchLimit
    /\ filter_electronics \in BOOLEAN
    /\ client = "none"
    /\ params = [search |-> None, page |-> 0]
    /\ status = 0 /\ npage = 0 /\ jx = 0
    /\ out = <<>> /\ page = 0 /\ retries = 0 /\ reqs = 0 /\ sleeps = <<>>
    /\ asked = 0 /\ accepted = 0 /\ fpc = "call" /\ err = "none" /\ ret = NoList
    /\ MergeIdle

\* the client held in a plain variable and closed by hand before the return:
\* an exception then leaves it as it was
RaiseWithoutWith(exc) ==
    /\ err' = exc
    /\ client' = client
    /\ fpc' = "raised"
    /\ ret' = NoList

\* an exception leaves fetch: the with block, if still entered, closes the
\* client on the way out, and no list reaches the caller
Raise(exc) ==
    /\ err' = exc
    /\ client' = "closed"
    /\ fpc' = "raised"
    /\ ret' = NoList

\* lines 78-82: out, page, q; the with block opens the client
ArbCall ==
    /\ conn = "arbeitnow" /\ fpc = "call"
    /\ out' = <<>>
    /\ page' = 1
    /\ client' = "open"
    /\ fpc' = "while"
    /\ UNCHANGED <<conn, query, limit, filter_electronics, params, status, npage, jx,
                   retries, reqs, sleeps, asked, accepted, err, ret>>
    /\ UNCHANGED mvars

\* lines 83-85: the outer while test; a new page begins with retries = 0
ArbWhile ==
    /\ conn = "arbeitnow" /\ fpc = "while"
    /\ IF ~LimitReached(out)
         THEN /\ params' = [search |-> None, page |-> page]
              /\ retries' = 0
              /\ reqs' = 0 /\ sleeps' = <<>> /\ accepted' = 0
              /\ fpc' = "get"
         ELSE /\ fpc' = "exit"
              /\ UNCHANGED <<params, retries, reqs, sleeps, accepted>>
    /\ UNCHANGED <<conn, query, limit, filter_electronics, client, status, npage, jx,
                   out, page, asked, err, ret>>
    /\ UNCHANGED mvars

\* line 88: the request, and whatever the service answers; the items of a
\* payload are drawn when the for loop reaches them
ArbGet ==
    /\ conn = "arbeitnow" /\ fpc = "get"
    /\ \E st \in Statuses, n \in 0..MaxItems :
          /\ status' = st
          /\ npage' = IF st = 200 THEN n ELSE 0
    /\ reqs' = reqs + 1
    /\ asked' = params.page
    /\ fpc' = "status"
    /\ UNCHANGED <<conn, query, limit, filter_electronics, client, params, jx, out,
                   page, retries, sleeps, accepted, err, ret>>
    /\ UNCHANGED mvars

\* lines 89-97: raise_for_status, and the except clause
ArbStatus ==
    /\ conn = "arbeitnow" /\ fpc = "status"
    /\ IF status = 200
         THEN /\ fpc' = "payload"
              /\ UNCHANGED <<sleeps, retries, err, client, ret>>
         ELSE IF MayRetry
                THEN /\ sleeps' = Append(sleeps, sleep_s)
                     /\ retries' = retries + 1
                     /\ fpc' = "get"
                     /\ UNCHANGED <<err, client, ret>>
                ELSE /\ Raise("HTTPStatusError")
                     /\ UNCHANGED <<sleeps, retries>>
    /\ UNCHANGED <<conn, query, limit, filter_electronics, params, status, npage, jx,
                   out, page, reqs, asked, accepted>>
    /\ UNCHANGED mvars

\* lines 98-102: an empty page ends the outer loop
ArbPayload ==
    /\ conn = "arbeitnow" /\ fpc = "payload"
    /\ IF npage = 0 THEN fpc' = "exit" /\ jx' = jx
                    ELSE fpc' = "for" /\ jx' = 0
    /\ UNCHANGED <<conn, query, limit, filter_electronics, client, params, status, npage,
                   out, page, retries, reqs, sleeps, asked, accepted, err, ret>>
    /\ UNCHANGED mvars

\* lines 104-146: one turn of the for loop over the page
ArbFor ==
    /\ conn = "arbeitnow" /\ fpc = "for"
    /\ IF jx = npage
         THEN /\ fpc' = "inc"
              /\ UNCHANGED <<jx, out, accepted, err, client, ret>>
         ELSE \E item \in RawItems :
              LET title   == Strip(OrEmpty(item.title))
                  company == Strip(OrEmpty(item.company_name))
                  url     == Strip(OrEmpty(item.url))
                  desc    == Strip(OrEmpty(item.description))
                  date_posted == _parse_date_posted(item.date)
                  opp == JobOpportunity("arbeitnow", company, title, url, date_posted, desc)
              IN  /\ jx' = jx + 1
                  /\ IF ~HasRequired(title, company, url) \/ ~QueryMatches(title, desc)
                        \/ ~RoleMatches(title, desc)
                       THEN /\ fpc' = "for"
                            /\ UNCHANGED <<out, accepted, err, client, ret>>
                       ELSE IF ~JobOpportunityValid(url)
                              THEN /\ Raise("ValidationError")
                                   /\ UNCHANGED <<out, accepted>>
                              ELSE /\ out' = Append(out, opp)
                                   /\ accepted' = accepted + 1
                                   /\ fpc' = IF LimitReached(out') THEN "inc" ELSE "for"
                                   /\ UNCHANGED <<err, client, ret>>
    /\ UNCHANGED <<conn, query, limit, filter_electronics, params, status, npage, page,
                   retries, reqs, sleeps, asked>>
    /\ UNCHANGED mvars

\* line 148
ArbInc ==
    /\ conn = "arbeitnow" /\ fpc = "inc"
    /\ page' = NextPage(page)
    /\ fpc' = "while"
    /\ UNCHANGED <<conn, query, limit, filter_electronics, client, params, status, npage,
                   jx, out, retries, reqs, sleeps, asked, accepted, err, ret>>
    /\ UNCHANGED mvars

\* line 150, after the with block has closed the client
ArbReturn ==
    /\ conn = "arbeitnow" /\ fpc = "exit"
    /\ client' = "closed"
    /\ ret' = Returned(out)
    /\ fpc' = "returned"
    /\ UNCHANGED <<conn, query, limit, filter_electronics, params, status, npage, jx,
                   out, page, retries, reqs, sleeps, asked, accepted, err>>
    /\ UNCHANGED mvars

-----------------------------------------------------------------------------
(* RemotiveSource *)

\* lines 80-81: None, a text, or AttributeError when the value has no strip()
RemotiveDateRaises(publication_date) ==
    \/ publication_date.kind = "other"
    \/ publication_date.kind = "num" /\ publication_date.n # 0

RemotiveDate(publication_date) ==
    LET pub_dt == IF publication_date.kind = "str" THEN Strip(publication_date.s) ELSE <<>>
    IN  IF Len(pub_dt) >= 10 THEN Take(pub_dt, 10) ELSE None

\* lines 55-59: the query goes to the service as the search parameter
RemCall ==
    /\ conn = "remotive" /\ fpc = "call"
    /\ params' = [search |-> IF query # None /\ query # <<>> THEN query ELSE None, page |-> 0]
    /\ client' = "open"
    /\ fpc' = "get"
    /\ UNCHANGED <<conn, query, limit, filter_electronics, status, npage, jx, out, page,
                   retries, reqs, sleeps, asked, accepted, err, ret>>
    /\ UNCHANGED mvars

\* line 60
RemGet ==
    /\ conn = "remotive" /\ fpc = "get"
    /\ \E st \in Statuses, n \in 0..MaxItems :
          /\ status' = st
          /\ npage' = IF st = 200 THEN n ELSE 0
    /\ reqs' = reqs + 1
    /\ fpc' = "status"
    /\ UNCHANGED <<conn, query, limit, filter_electronics, client, params, jx, out,
                   page, retries, sleeps, asked, accepted, err, ret>>
    /\ UNCHANGED mvars

\* lines 61-65: raise_for_status; the with block ends, then jobs and out
RemStatus ==
    /\ conn = "remotive" /\ fpc = "status"
    /\ IF status = 200
         THEN /\ client' = "closed"
              /\ out' = <<>>
              /\ jx' = 0
              /\ fpc' = "for"
              /\ UNCHANGED <<err, ret>>
         ELSE /\ Raise("HTTPStatusError")
              /\ UNCHANGED <<out, jx>>
    /\ UNCHANGED <<conn, query, limit, filter_electronics, params, status, npage, page,
                   retries, reqs, sleeps, asked, accepted>>
    /\ UNCHANGED mvars

\* lines 67-105: one turn of the for loop over jobs[: max(limit, 0)]
RemFor ==
    /\ conn = "remotive" /\ fpc = "for"
    /\ IF jx = Min(npage, Max(limit, 0))
         THEN /\ fpc' = "exit"
              /\ UNCHANGED <<jx, out, accepted, err, client, ret>>
         ELSE \E item \in RawItems :
              LET title   == Strip(OrEmpty(item.title))
                  company == Strip(OrEmpty(item.company_name))
                  url     == Strip(OrEmpty(item.url))
                  desc    == Strip(OrEmpty(item.description))
                  date_posted == RemotiveDate(item.date)
                  opp == JobOpportunity("remotive", company, title, url, date_posted, desc)
              IN  /\ jx' = jx + 1
                  /\ IF ~HasRequired(title, company, url) \/ ~RoleMatches(title, desc)
                       THEN /\ fpc' = "for"
                            /\ UNCHANGED <<out, accepted, err, client, ret>>
                       ELSE IF RemotiveDateRaises(item.date)
                              THEN /\ Raise("AttributeError")
                                   /\ UNCHANGED <<out, accepted>>
                       ELSE IF ~JobOpportunityValid(url)
                              THEN /\ Raise("ValidationError")
                                   /\ UNCHANGED <<out, accepted>>
                              ELSE /\ out' = Append(out, opp)
                                   /\ accepted' = accepted + 1
                                   /\ fpc' = "for"
                                   /\ UNCHANGED <<err, client, ret>>
    /\ UNCHANGED <<conn, query, limit, filter_electronics, params, status, npage, page,
                   retries, reqs, sleeps, asked>>
    /\ UNCHANGED mvars

\* line 107
RemReturn ==
    /\ conn = "remotive" /\ fpc = "exit"
    /\ ret' = Returned(out)
    /\ fpc' = "returned"
    /\ UNCHANGED <<conn, query, limit, filter_electronics, client, params, status, npage,
                   jx, out, page, retries, reqs, sleeps, asked, accepted, err>>
    /\ UNCHANGED mvars

NextFetch ==
    \/ ArbCall \/ ArbWhile \/ ArbGet \/ ArbStatus \/ ArbPayload \/ ArbFor \/ ArbInc \/ ArbReturn
    \/ RemCall \/ RemGet \/ RemStatus \/ RemFor \/ RemReturn

SpecFetch == InitFetch /\ [][NextFetch]_vars

\* the program takes its next step whenever it has one: a single thread,
\* blocking calls, and a service that answers every request
FairFetch == SpecFetch /\ WF_vars(NextFetch)

-----------------------------------------------------------------------------
(* Properties of the merge *)

Ids(xs) == {xs[n].id : n \in 1..Len(xs)}

InputIds == Ids(remotive_jobs) \cup Ids(arbeitnow_jobs)

\* C1: the merged list is never longer than limit, and is empty when
\* limit <= 0, in every state of the interleave loop and of the fill loop.
C1_OutputWithinLimit == Len(jobs) <= Max(max_len, 0)

\* the cap was what stopped the merge: more distinct ids than limit
C1_Witness ==
    /\ pc = "done"
    /\ max_len > 0
    /\ Len(jobs) = max_len
    /\ Cardinality(InputIds) > max_len

\* C2: no two records of the merged list have the same id, and seen is
\* the set of the ids of the merged list, in every state of the merge.
C2_NoDuplicateIds ==
    /\ \A m, n \in 1..Len(jobs) : jobs[m].id = jobs[n].id => m = n
    /\ seen = Ids(jobs)

\* every input record was looked at, and one repeating an id was dropped
C2_Witness ==
    /\ pc = "done"
    /\ Len(jobs) < max_len
    /\ Len(jobs) < Len(remotive_jobs) + Len(arbeitnow_jobs)
    /\ Len(jobs) >= 2

\* the record the turn-by-turn order puts at position p of the output
TurnRecord(p) == IF p % 2 = 1 THEN remotive_jobs[(p + 1) \div 2] ELSE arbeitnow_jobs[p \div 2]

\* the point where the first source list runs out
ShorterLen == Min(Len(remotive_jobs), Len(arbeitnow_jobs))

\* C3 as stated: up to the point where a source list runs out or the limit
\* is reached, the sources of the output records alternate, Remotive first.
C3_AlternateUntilExhausted ==
    pc = "done" =>
        \A p \in 1..Min(2 * ShorterLen, Len(jobs)) :
            jobs[p].source = IF p % 2 = 1 THEN "remotive" ELSE "arbeitnow"

\* no id occurs twice among the first n records of either list
NoRepeatBefore(n) ==
    /\ \A a, b \in 1..Min(n, Len(remotive_jobs)) :
          remotive_jobs[a].id = remotive_jobs[b].id => a = b
    /\ \A a, b \in 1..Min(n, Len(arbeitnow_jobs)) :
          arbeitnow_jobs[a].id = arbeitnow_jobs[b].id => a = b
    /\ \A a \in 1..Min(n, Len(remotive_jobs)), b \in 1..Min(n, Len(arbeitnow_jobs)) :
          remotive_jobs[a].id # arbeitnow_jobs[b].id

\* the number of rounds before a source list runs out or a record repeats an id
FairRounds == CHOOSE n \in 0..ShorterLen :
    /\ NoRepeatBefore(n)
    /\ \A m \in (n + 1)..ShorterLen : ~NoRepeatBefore(m)

\* C3 (amended): up to the point where a source list runs out, the limit is
\* reached or an input record repeats an id, the output is the two lists
\* taken turn by turn, Remotive first, each in its own order.
C3_AlternateUntilRepeat ==
    /\ \A p \in 1..Min(2 * FairRounds, Len(jobs)) : jobs[p] = TurnRecord(p)
    /\ pc = "done" => Len(jobs) >= Min(2 * FairRounds, Max(max_len, 0))

\* A = [a1, a2, a3], B = [b1, b2], limit = 4 gives [a1, b1, a2, b2]
C3_Witness ==
    /\ pc = "done"
    /\ max_len = 4
    /\ remotive_jobs = <<MergeJob("remotive", "u1"), MergeJob("remotive", "u2"), MergeJob("remotive", "u3")>>
    /\ arbeitnow_jobs = <<MergeJob("arbeitnow", "u1"), MergeJob("arbeitnow", "u2")>>
    /\ jobs = <<remotive_jobs[1], arbeitnow_jobs[1], remotive_jobs[2], arbeitnow_jobs[2]>>

\* C9: a merge that ends below limit has emitted every id of both inputs;
\* for limit >= 0 the output has min(limit, number of distinct ids) records.
C9_NothingLeftBehind ==
    pc = "done" =>
        /\ Len(jobs) < max_len => InputIds \subseteq Ids(jobs)
        /\ max_len >= 0 => Len(jobs) = Min(max_len, Cardinality(InputIds))

\* lists of very unequal lengths, merged in full below the limit
C9_Witness ==
    /\ pc = "done"
    /\ Len(remotive_jobs) = 0
    /\ Len(arbeitnow_jobs) = MaxLen
    /\ Len(jobs) = Cardinality(InputIds)
    /\ Len(jobs) >= 2
    /\ Len(jobs) < max_len

-----------------------------------------------------------------------------
(* Properties of the connectors *)

Ended == fpc \in {"returned", "raised"}

\* C4: ArbeitnowSource.fetch issues at most max_retries + 1 requests for
\* one page, with at most max_retries backoff sleeps, and when the
\* (max_retries + 1)-th answer is 429 too it raises the HTTP error.
C4_RetriesBounded ==
    conn = "arbeitnow" =>
        /\ reqs <= max_retries + 1
        /\ Len(sleeps) <= max_retries
        /\ (status = 429 /\ reqs = max_retries + 1 /\ fpc # "status")
              => (fpc = "raised" /\ err = "HTTPStatusError")

\* 429 four times for one page: three sleeps of 2, 4, 8 seconds, then the error
C4_Witness ==
    /\ conn = "arbeitnow"
    /\ fpc = "raised" /\ err = "HTTPStatusError"
    /\ status = 429
    /\ reqs = max_retries + 1
    /\ sleeps = <<2, 4, 8>>

\* the latest response is a failure the connector does not retry
FatalStatus ==
    /\ fpc = "status"
    /\ status # 200
    /\ ~(conn = "arbeitnow" /\ status = 429 /\ retries < max_retries)

\* C5: in both connectors a response with an error status other than 429,
\* or a 429 once the retries are used up, makes fetch raise in its next
\* step, with no further request and no sleep, and hands no list to the
\* caller, whatever was accumulated.
C5_FatalStatusRaises ==
    [][FatalStatus =>
         /\ fpc' = "raised" /\ err' = "HTTPStatusError"
         /\ ret' = NoList
         /\ sleeps' = sleeps /\ reqs' = reqs /\ retries' = retries]_vars

\* a 500 on a later page, with records of earlier pages in hand
C5_Witness ==
    /\ conn = "arbeitnow"
    /\ fpc = "raised" /\ err = "HTTPStatusError"
    /\ status = 500
    /\ asked >= 2
    /\ Len(out) >= 1
    /\ ret = NoList

\* text has the query in it, compared case-insensitively
HasQuery(record, text) ==
    Contains(Lower(record.job_title \o <<" ">> \o record.description), Lower(text))

\* C6 as stated: in both connectors, with a non-empty query every record
\* of the result has the query, case-insensitively, in its title and
\* description (the query read without its surrounding whitespace, which
\* asks less than the query as given).
C6_QueryFiltersEveryConnector ==
    Strip(OrEmpty(query)) # <<>> => \A n \in 1..Len(out) : HasQuery(out[n], Strip(query))

\* C6 (amended): ArbeitnowSource keeps, for a query that is non-empty after
\* trimming, only records with the trimmed query, case-insensitively, in
\* title + " " + description; RemotiveSource hands the query to the service
\* as the search parameter.
C6_ArbeitnowFiltersTrimmedQuery ==
    /\ (conn = "arbeitnow" /\ Strip(OrEmpty(query)) # <<>>) =>
            /\ \A n \in 1..Len(out) : HasQuery(out[n], Strip(query))
            /\ fpc = "returned" => ret = Returned(out)
    /\ (conn = "remotive" /\ reqs > 0 /\ query # None /\ query # <<>>) =>
            params.search = query

\* a query that needs trimming and lower-casing; a page of two items, one
\* of them accepted and returned, the other dropped
C6_Witness ==
    /\ conn = "arbeitnow"
    /\ query = <<" ", "R", "f">>
    /\ ~filter_electronics
    /\ fpc = "returned"
    /\ Len(ret.list) = 1
    /\ jx = 2 /\ accepted = 1

\* C7: an item with an empty title, company or URL, or with a URL that
\* does not parse, is dropped before a record is built and never makes
\* fetch fail.
C7_MalformedItemsNeverFatal ==
    /\ ~(fpc = "raised" /\ err = "ValidationError")
    /\ \A n \in 1..Len(out) :
          /\ out[n].job_title # <<>>
          /\ out[n].company_name # <<>>
          /\ IsHttpUrl(out[n].job_url)

\* text is a full, valid YYYY-MM-DD
IsIsoCalendarDate(text) == Len(text) = 10 /\ DatePartOk(text)

\* C8: date_posted of every record is None or a valid YYYY-MM-DD.
C8_DatePostedIsoOrNone ==
    \A n \in 1..Len(out) :
        out[n].date_posted = None \/ IsIsoCalendarDate(out[n].date_posted)

\* a page has been gone through and no item of it was accepted
Barren == conn = "arbeitnow" /\ fpc = "inc" /\ accepted = 0

\* each request asks for the page after the one asked before, or, as a
\* retry, for the same page; the first asks for page 1
PagesInOrder ==
    [][(conn = "arbeitnow" /\ fpc = "get" /\ fpc' = "status") =>
         asked' = IF retries > 0 THEN asked
                  ELSE IF asked < MaxPage THEN asked + 1 ELSE MaxPage]_vars

\* C10 as stated: every call of ArbeitnowSource.fetch ends, whatever the
\* service does, and the pages are requested in the order 1, 2, 3, ...
C10_AlwaysEnds ==
    /\ conn = "arbeitnow" => <>Ended
    /\ PagesInOrder

\* C10 (amended): a call of ArbeitnowSource.fetch ends unless the service
\* goes on sending non-empty pages of which no item is accepted; the pages
\* are requested in the order 1, 2, 3, ...
C10_EndsUnlessBarrenForever ==
    /\ conn = "arbeitnow" => ([]<>Barren \/ <>Ended)
    /\ PagesInOrder

\* three pages asked for, one of them again after a 429, and a list returned
C10_Witness ==
    /\ conn = "arbeitnow"
    /\ fpc = "returned"
    /\ asked = 3
    /\ sleeps # <<>>
    /\ Len(ret.list) = 2

-----------------------------------------------------------------------------
(* The network client of a call *)

\* the step issues a request
IssuesRequest == reqs' = reqs + 1

\* C11: in both connectors the client of a call is opened once, out of no
\* client at all, and once closed it stays closed; after fetch has returned
\* or raised (normal return, non-429 HTTP error, 429 after the retries are
\* used up, or any other exception) the client is closed; and every request
\* is issued on the open client, which is still open after it.
C11_ClientClosedOnEveryExit ==
    /\ [](Ended => client = "closed")
    /\ [][/\ (client' = "open" /\ client # "open") => client = "none"
          /\ client = "closed" => client' = "closed"
          /\ client' # "none"
          /\ IssuesRequest => client = "open" /\ client' = "open"]_vars

\* the fourth 429 of a page: three retries made, the error leaves fetch
\* through the with block
C11_Witness ==
    /\ conn = "arbeitnow"
    /\ Ended /\ err = "HTTPStatusError"
    /\ status = 429 /\ retries = max_retries
    /\ reqs = max_retries + 1
    /\ client = "closed"

=============================================================================
